---- MODULE Spec2Model ----
(***************************************************************************)
(* LLAMA spinlock (ll_lock.h): the hand-rolled test-and-test-and-set      *)
(* spinlock ll_spinlock_t and the striped lock table ll_spinlock_table_ext.*)
(*                                                                         *)
(* Memory is modelled with one store buffer per thread: a plain store      *)
(* (the release's store of 0, a write inside a critical section) enters   *)
(* the buffer of the storing thread and reaches memory later; stores to    *)
(* different addresses may reach memory in any order, stores to one       *)
(* address in program order.                                               *)
(* __sync_synchronize() is a full barrier: it drains the buffer.           *)
(* __sync_lock_test_and_set() is an atomic exchange on memory; it is only  *)
(* an acquire barrier, so it makes the caller's own pending stores to the  *)
(* exchanged word take effect first and leaves its other stores pending.   *)
(* A plain load returns the thread's own latest pending store to the       *)
(* address, or else the value in memory.                                   *)
(***************************************************************************)
EXTENDS Integers, Sequences, FiniteSets, TLC

\* #define LL_CACHELINE 8: the stride, in lock words, between two slots.
LL_CACHELINE == 8

\* Bounds of the model.
NumThreads == 3      \* threads 1..NumThreads call the spinlock functions
LoopThreads == 2     \* threads 1..LoopThreads call the table functions
MaxIter == 2         \* iterations of the acquire/increment/release loop
MaxKey == 2          \* keys 0..MaxKey
LogSize == 1         \* the table has 2^LogSize slots
MaxBuf == 2          \* capacity of a store buffer

Threads == 1..NumThreads
Keys == 0..MaxKey
NoThread == 0
NoKey == MaxKey + 1
NoPtr == -1
NoRet == -1
TableSize == 2 ^ LogSize

VARIABLES
  size,             \* template parameter <int size> of ll_spinlock_table_ext
  ll_spinlock_tab,  \* the lock words in memory, size * LL_CACHELINE of them
  shared,           \* memory the callers protect: one counter per slot
  buf,              \* per thread: stores issued and not yet in memory
  nthreads,         \* threads 1..nthreads run
  pc,               \* per thread: where it is
  key,              \* per thread: the key its loop locks (NoKey: none)
  x,                \* per thread: argument x of the acquire_for / release_for it is in
  ptr,              \* per thread: argument ptr of the ll_spinlock_ function it is in
  ret,              \* per thread: int ret of ll_spinlock_try_acquire
  reg,              \* per thread: the counter value the caller read
  iter,             \* per thread: loop iterations started
  holder,           \* history, per lock word: thread whose test-and-set took it
  claimed,          \* history, per thread: acquired and no release completed since
  last_write        \* history, per slot: last value stored to its counter

vars == <<size, ll_spinlock_tab, shared, buf, nthreads, pc, key, x, ptr, ret,
          reg, iter, holder, claimed, last_write>>

Running == 1..nthreads

----------------------------------------------------------------------------
\* x & m for a mask m >= 0, on two's complement integers: bit by bit, with
\* x % 2 the low bit and x \div 2 the arithmetic shift.
RECURSIVE BitAnd(_, _)
BitAnd(a, m) ==
  IF m = 0 THEN 0
  ELSE (a % 2) * (m % 2) + 2 * BitAnd(a \div 2, m \div 2)

\* Mutant: the key is shifted before it is masked.
acquire_for_tab_idx_Shifted(k, sz) == BitAnd(k \div 2, sz - 1) * LL_CACHELINE

\* Mutant: the stride is forgotten.
acquire_for_tab_idx_NoStride(k, sz) == BitAnd(k, sz - 1)

\* Mutant: the slot is the remainder x % size of C, whose sign is that of x.
acquire_for_tab_idx_Remainder(k, sz) ==
  (IF k >= 0 THEN k % sz ELSE -((-k) % sz)) * LL_CACHELINE

\* Mutant: the stride is half of LL_CACHELINE.
acquire_for_tab_idx_HalfStride(k, sz) == BitAnd(k, sz - 1) * (LL_CACHELINE \div 2)

\* acquire_for: entry_idx = (uint32_t)(x & (size - 1)); tab_idx = entry_idx * LL_CACHELINE
acquire_for_tab_idx(k, sz) == BitAnd(k, sz - 1) * LL_CACHELINE

\* Mutant: release_for derives its index from the next key.
release_for_tab_idx_NextKey(k, sz) == BitAnd(k + 1, sz - 1) * LL_CACHELINE

\* release_for: the same two lines, computed again from its own argument.
release_for_tab_idx(k, sz) == BitAnd(k, sz - 1) * LL_CACHELINE

\* acquire_for and release_for instantiated for a key type T wider than int,
\* the key given in two limbs, x = hi * 2^31 + lo with 0 <= lo < 2^31 (hi is
\* negative for a negative key).  size - 1 is converted to T: its low limb
\* is size - 1 and, size - 1 being an int that is not negative, its high limb
\* is 0.  The operator & works limb by limb, and the cast to uint32_t keeps
\* the low limb and the lowest bit of the high limb.
wide_tab_idx(hi, lo, sz) ==
  LET and_hi == BitAnd(hi, 0)
      and_lo == BitAnd(lo, sz - 1)
      entry_idx == IF and_hi % 2 = 0 THEN and_lo ELSE and_lo + 2147483647 + 1
  IN entry_idx * LL_CACHELINE

\* Mutant: init leaves the lock held.
ll_spinlock_init_Held(tab, p) == [tab EXCEPT ![p] = 1]

\* ll_spinlock_init: *ptr_lock = 0
ll_spinlock_init(tab, p) == [tab EXCEPT ![p] = 0]

\* Mutant: the constructor's loop misses the first word.
RECURSIVE InitWords_SkipsFirst(_, _)
InitWords_SkipsFirst(tab, n) ==
  IF n <= 1 THEN tab ELSE InitWords_SkipsFirst(ll_spinlock_init(tab, n - 1), n - 1)

\* The constructor: ll_spinlock_init on every word of ll_spinlock_tab.
RECURSIVE InitWords(_, _)
InitWords(tab, n) ==
  IF n = 0 THEN tab ELSE InitWords(ll_spinlock_init(tab, n - 1), n - 1)

\* Indeterminate content of the array before the constructor body runs.
Garbage == {0, 1, 7}

Constructed(sz) ==
  {InitWords([i \in 0..(sz * LL_CACHELINE - 1) |-> g], sz * LL_CACHELINE) : g \in Garbage}

----------------------------------------------------------------------------
\* Memory and store buffers.  An address is <<"lock", p>> (word p of
\* ll_spinlock_tab) or <<"data", e>> (the counter protected by slot e).
LockAt(p) == <<"lock", p>>
DataAt(e) == <<"data", e>>

Mem == [tab |-> ll_spinlock_tab, sh |-> shared, ho |-> holder]

\* One store reaching memory.  A store of 0 to a lock word ends the hold on it.
Apply(m, en) ==
  IF en.loc[1] = "lock"
  THEN [m EXCEPT !.tab[en.loc[2]] = en.val,
                 !.ho[en.loc[2]] = IF en.val = 0 THEN NoThread ELSE @]
  ELSE [m EXCEPT !.sh[en.loc[2]] = en.val]

RECURSIVE ApplyAll(_, _)
ApplyAll(m, b) ==
  IF b = <<>> THEN m ELSE ApplyAll(Apply(m, Head(b)), Tail(b))

OnLoc(b, loc) == SelectSeq(b, LAMBDA en : en.loc = loc)
OffLoc(b, loc) == SelectSeq(b, LAMBDA en : en.loc # loc)

MemAt(m, loc) == IF loc[1] = "lock" THEN m.tab[loc[2]] ELSE m.sh[loc[2]]

\* A plain load by a thread with buffer b from memory m: its own latest
\* pending store to the address, or else the value in memory.
LoadFrom(b, m, loc) ==
  LET own == OnLoc(b, loc)
  IN IF own = <<>> THEN MemAt(m, loc) ELSE own[Len(own)].val

\* A plain load by thread t.
Load(t, loc) == LoadFrom(buf[t], Mem, loc)

\* A plain store by thread t: it enters the buffer; a full buffer first
\* retires its oldest store.  The result is the new memory and buffer.
Store(t, loc, v) ==
  LET en == [loc |-> loc, val |-> v]
  IN IF Len(buf[t]) >= MaxBuf
     THEN [m |-> Apply(Mem, Head(buf[t])), b |-> Append(Tail(buf[t]), en)]
     ELSE [m |-> Mem, b |-> Append(buf[t], en)]

SetMem(m) ==
  /\ ll_spinlock_tab' = m.tab
  /\ shared' = m.sh
  /\ holder' = m.ho

\* The hardware retires one buffered store of thread t: any store that has no
\* older store to the same address before it.
Retire(t) ==
  \E i \in 1..Len(buf[t]) :
    /\ \A j \in 1..(i - 1) : buf[t][j].loc # buf[t][i].loc
    /\ SetMem(Apply(Mem, buf[t][i]))
    /\ buf' = [buf EXCEPT ![t] = SubSeq(@, 1, i - 1) \o SubSeq(@, i + 1, Len(@))]
    /\ UNCHANGED <<size, nthreads, key, pc, x, ptr, ret, reg, iter, claimed, last_write>>

\* Mutant: the exchange stores 0 where the code stores 1.
TestAndSet_StoresZero(t, p) ==
  LET m0 == ApplyAll(Mem, OnLoc(buf[t], LockAt(p)))
      old == m0.tab[p]
  IN [old |-> old,
      m |-> [m0 EXCEPT !.tab[p] = 0,
                       !.ho[p] = IF old = 0 THEN t ELSE @],
      b |-> OffLoc(buf[t], LockAt(p))]

\* Mutant: a fetch-and-add where the code exchanges.
TestAndSet_Adds(t, p) ==
  LET m0 == ApplyAll(Mem, OnLoc(buf[t], LockAt(p)))
      old == m0.tab[p]
  IN [old |-> old,
      m |-> [m0 EXCEPT !.tab[p] = old + 1,
                       !.ho[p] = IF old = 0 THEN t ELSE @],
      b |-> OffLoc(buf[t], LockAt(p))]

\* __sync_lock_test_and_set(ptr, 1) by thread t: the value found, and the
\* memory and buffer it leaves.
TestAndSet(t, p) ==
  LET m0 == ApplyAll(Mem, OnLoc(buf[t], LockAt(p)))
      old == m0.tab[p]
  IN [old |-> old,
      m |-> [m0 EXCEPT !.tab[p] = 1,
                       !.ho[p] = IF old = 0 THEN t ELSE @],
      b |-> OffLoc(buf[t], LockAt(p))]

\* Mutant: release without the barrier.
Synchronize_NoBarrier(t) == [m |-> Mem, b |-> buf[t]]

\* __sync_synchronize() by thread t: every pending store reaches memory.
Synchronize(t) == [m |-> ApplyAll(Mem, buf[t]), b |-> <<>>]

----------------------------------------------------------------------------
\* Mutant: the loop condition is inverted.
AcquireTestAndSet_Inverted(t) ==
  /\ pc[t] = "acq_tas"
  /\ LET r == TestAndSet(t, ptr[t])
     IN /\ SetMem(r.m)
        /\ buf' = [buf EXCEPT ![t] = r.b]
        /\ pc' = [pc EXCEPT ![t] = IF r.old = 0 THEN "acq_spin" ELSE "acquired"]
        /\ x' = [x EXCEPT ![t] = IF r.old = 0 THEN @ ELSE NoKey]
        /\ ptr' = [ptr EXCEPT ![t] = IF r.old = 0 THEN @ ELSE NoPtr]
        /\ claimed' = [claimed EXCEPT ![t] = IF r.old = 0 THEN @ ELSE TRUE]
  /\ UNCHANGED <<size, nthreads, key, ret, reg, iter, last_write>>

\* Mutant: the thread that took the lock is let in again.
AcquireTestAndSet_Reentrant(t) ==
  /\ pc[t] = "acq_tas"
  /\ LET r == TestAndSet(t, ptr[t])
         in == r.old = 0 \/ holder[ptr[t]] = t
     IN /\ SetMem(r.m)
        /\ buf' = [buf EXCEPT ![t] = r.b]
        /\ pc' = [pc EXCEPT ![t] = IF in THEN "acquired" ELSE "acq_spin"]
        /\ x' = [x EXCEPT ![t] = IF in THEN NoKey ELSE @]
        /\ ptr' = [ptr EXCEPT ![t] = IF in THEN NoPtr ELSE @]
        /\ claimed' = [claimed EXCEPT ![t] = IF in THEN TRUE ELSE @]
  /\ UNCHANGED <<size, nthreads, key, ret, reg, iter, last_write>>

\* ll_spinlock_acquire, outer loop: while (__sync_lock_test_and_set(ptr, 1))
AcquireTestAndSet(t) ==
  /\ pc[t] = "acq_tas"
  /\ LET r == TestAndSet(t, ptr[t])
     IN /\ SetMem(r.m)
        /\ buf' = [buf EXCEPT ![t] = r.b]
        /\ pc' = [pc EXCEPT ![t] = IF r.old # 0 THEN "acq_spin" ELSE "acquired"]
        /\ x' = [x EXCEPT ![t] = IF r.old # 0 THEN @ ELSE NoKey]
        /\ ptr' = [ptr EXCEPT ![t] = IF r.old # 0 THEN @ ELSE NoPtr]
        /\ claimed' = [claimed EXCEPT ![t] = IF r.old # 0 THEN @ ELSE TRUE]
  /\ UNCHANGED <<size, nthreads, key, ret, reg, iter, last_write>>

\* Mutant: a waiter that sees the lock free enters without a new
\* test-and-set.
AcquireSpin_NoRetest(t) ==
  /\ pc[t] = "acq_spin"
  /\ LET free == Load(t, LockAt(ptr[t])) # 1
     IN /\ pc' = [pc EXCEPT ![t] = IF free THEN "acquired" ELSE "acq_spin"]
        /\ x' = [x EXCEPT ![t] = IF free THEN NoKey ELSE @]
        /\ ptr' = [ptr EXCEPT ![t] = IF free THEN NoPtr ELSE @]
        /\ claimed' = [claimed EXCEPT ![t] = IF free THEN TRUE ELSE @]
  /\ UNCHANGED <<size, ll_spinlock_tab, shared, buf, nthreads, key, ret, reg,
                 iter, holder, last_write>>

\* Mutant: the test of the inner loop is inverted; it spins while the flag
\* is not 1.
AcquireSpin_Inverted(t) ==
  /\ pc[t] = "acq_spin"
  /\ pc' = [pc EXCEPT ![t] = IF Load(t, LockAt(ptr[t])) # 1 THEN "acq_spin" ELSE "acq_tas"]
  /\ UNCHANGED <<size, ll_spinlock_tab, shared, buf, nthreads, key, x, ptr, ret, reg,
                 iter, holder, claimed, last_write>>

\* Mutant: the inner loop exchanges where the code reads.
AcquireSpin_Exchanges(t) ==
  /\ pc[t] = "acq_spin"
  /\ LET r == TestAndSet(t, ptr[t])
     IN /\ SetMem(r.m)
        /\ buf' = [buf EXCEPT ![t] = r.b]
        /\ pc' = [pc EXCEPT ![t] = IF r.old # 0 THEN "acq_spin" ELSE "acquired"]
        /\ x' = [x EXCEPT ![t] = IF r.old # 0 THEN @ ELSE NoKey]
        /\ ptr' = [ptr EXCEPT ![t] = IF r.old # 0 THEN @ ELSE NoPtr]
        /\ claimed' = [claimed EXCEPT ![t] = IF r.old # 0 THEN @ ELSE TRUE]
  /\ UNCHANGED <<size, nthreads, key, ret, reg, iter, last_write>>

\* ll_spinlock_acquire, inner loop: one read of *ptr; spin on while it is 1
AcquireSpin(t) ==
  /\ pc[t] = "acq_spin"
  /\ pc' = [pc EXCEPT ![t] = IF Load(t, LockAt(ptr[t])) = 1 THEN "acq_spin" ELSE "acq_tas"]
  /\ UNCHANGED <<size, ll_spinlock_tab, shared, buf, nthreads, key, x, ptr, ret, reg,
                 iter, holder, claimed, last_write>>

\* ll_spinlock_release, first statement: __sync_synchronize()
ReleaseSynchronize(t) ==
  /\ pc[t] = "rel_sync"
  /\ LET r == Synchronize(t)
     IN /\ SetMem(r.m)
        /\ buf' = [buf EXCEPT ![t] = r.b]
  /\ pc' = [pc EXCEPT ![t] = "rel_store"]
  /\ UNCHANGED <<size, nthreads, key, x, ptr, ret, reg, iter, claimed, last_write>>

\* Mutant: only the thread that took the lock may store the 0.
ReleaseStore_OwnerOnly(t) ==
  /\ pc[t] = "rel_store"
  /\ holder[ptr[t]] = t
  /\ LET r == Store(t, LockAt(ptr[t]), 0)
     IN /\ SetMem(r.m)
        /\ buf' = [buf EXCEPT ![t] = r.b]
  /\ pc' = [pc EXCEPT ![t] = "released"]
  /\ x' = [x EXCEPT ![t] = NoKey]
  /\ ptr' = [ptr EXCEPT ![t] = NoPtr]
  /\ claimed' = [claimed EXCEPT ![t] = FALSE]
  /\ UNCHANGED <<size, nthreads, key, ret, reg, iter, last_write>>

\* ll_spinlock_release, second statement: *ptr = 0
ReleaseStore(t) ==
  /\ pc[t] = "rel_store"
  /\ LET r == Store(t, LockAt(ptr[t]), 0)
     IN /\ SetMem(r.m)
        /\ buf' = [buf EXCEPT ![t] = r.b]
  /\ pc' = [pc EXCEPT ![t] = "released"]
  /\ x' = [x EXCEPT ![t] = NoKey]
  /\ ptr' = [ptr EXCEPT ![t] = NoPtr]
  /\ claimed' = [claimed EXCEPT ![t] = FALSE]
  /\ UNCHANGED <<size, nthreads, key, ret, reg, iter, last_write>>

----------------------------------------------------------------------------
\* Mutant: the test of ret is inverted.
try_acquire_result_Inverted(r) == r # 0

\* ll_spinlock_try_acquire: int ret = __sync_lock_test_and_set(ptr, 1);
\* return ret == 0.  try_acquire_result is the value returned for ret = r.
try_acquire_result(r) == r = 0

\* Mutant: try_acquire waits like acquire when the lock is taken.
TryAcquireTestAndSet_Spins(t) ==
  /\ pc[t] = "try_tas"
  /\ LET r == TestAndSet(t, ptr[t])
     IN /\ SetMem(r.m)
        /\ buf' = [buf EXCEPT ![t] = r.b]
        /\ ret' = [ret EXCEPT ![t] = r.old]
        /\ claimed' = [claimed EXCEPT ![t] = IF r.old = 0 THEN TRUE ELSE @]
        /\ pc' = [pc EXCEPT ![t] = IF r.old = 0 THEN "tried" ELSE "acq_spin"]
        /\ ptr' = [ptr EXCEPT ![t] = IF r.old = 0 THEN NoPtr ELSE @]
  /\ UNCHANGED <<size, nthreads, key, x, reg, iter, last_write>>

\* Mutant: try_acquire reads the word where the code exchanges it.
TryAcquireTestAndSet_ReadOnly(t) ==
  /\ pc[t] = "try_tas"
  /\ ret' = [ret EXCEPT ![t] = Load(t, LockAt(ptr[t]))]
  /\ claimed' = [claimed EXCEPT ![t] = IF Load(t, LockAt(ptr[t])) = 0 THEN TRUE ELSE @]
  /\ pc' = [pc EXCEPT ![t] = "tried"]
  /\ ptr' = [ptr EXCEPT ![t] = NoPtr]
  /\ UNCHANGED <<size, ll_spinlock_tab, shared, buf, nthreads, key, x, reg, iter,
                 holder, last_write>>

\* ll_spinlock_try_acquire: the one test-and-set, and the return.
TryAcquireTestAndSet(t) ==
  /\ pc[t] = "try_tas"
  /\ LET r == TestAndSet(t, ptr[t])
     IN /\ SetMem(r.m)
        /\ buf' = [buf EXCEPT ![t] = r.b]
        /\ ret' = [ret EXCEPT ![t] = r.old]
        /\ claimed' = [claimed EXCEPT ![t] = IF try_acquire_result(r.old) THEN TRUE ELSE @]
  /\ pc' = [pc EXCEPT ![t] = "tried"]
  /\ ptr' = [ptr EXCEPT ![t] = NoPtr]
  /\ UNCHANGED <<size, nthreads, key, x, reg, iter, last_write>>

----------------------------------------------------------------------------
\* Callers.  A thread is at rest between two calls.
Rest == {"start", "acquired", "released", "tried"}

\* The slots' lock words: ll_spinlock_tab[e * LL_CACHELINE]
LockPtrs == {e * LL_CACHELINE : e \in 0..(size - 1)}

\* A call of ll_spinlock_try_acquire(ptr) on one of the locks.
CallTryAcquire(t) ==
  /\ t \in Running
  /\ pc[t] \in Rest
  /\ \E p \in LockPtrs : ptr' = [ptr EXCEPT ![t] = p]
  /\ ret' = [ret EXCEPT ![t] = NoRet]
  /\ pc' = [pc EXCEPT ![t] = "try_tas"]
  /\ UNCHANGED <<size, ll_spinlock_tab, shared, buf, nthreads, key, x, reg, iter,
                 holder, claimed, last_write>>

\* A call of ll_spinlock_acquire(ptr).
CallAcquire(t) ==
  /\ t \in Running
  /\ pc[t] \in Rest
  /\ \E p \in LockPtrs : ptr' = [ptr EXCEPT ![t] = p]
  /\ ret' = [ret EXCEPT ![t] = NoRet]
  /\ pc' = [pc EXCEPT ![t] = "acq_tas"]
  /\ UNCHANGED <<size, ll_spinlock_tab, shared, buf, nthreads, key, x, reg, iter,
                 holder, claimed, last_write>>

\* A call of ll_spinlock_release(ptr).
CallRelease(t) ==
  /\ t \in Running
  /\ pc[t] \in Rest
  /\ \E p \in LockPtrs : ptr' = [ptr EXCEPT ![t] = p]
  /\ ret' = [ret EXCEPT ![t] = NoRet]
  /\ pc' = [pc EXCEPT ![t] = "rel_sync"]
  /\ UNCHANGED <<size, ll_spinlock_tab, shared, buf, nthreads, key, x, reg, iter,
                 holder, claimed, last_write>>

\* A call of acquire_for(k), any key: the index computation, then the call of
\* ll_spinlock_acquire(&ll_spinlock_tab[tab_idx]).
CallAcquireFor(t) ==
  /\ t \in Running
  /\ pc[t] \in Rest
  /\ \E k \in Keys :
       /\ x' = [x EXCEPT ![t] = k]
       /\ ptr' = [ptr EXCEPT ![t] = acquire_for_tab_idx(k, size)]
  /\ pc' = [pc EXCEPT ![t] = "acq_tas"]
  /\ UNCHANGED <<size, ll_spinlock_tab, shared, buf, nthreads, key, ret, reg, iter,
                 holder, claimed, last_write>>

\* A call of release_for(k), any key: the index computation, then the call of
\* ll_spinlock_release(&ll_spinlock_tab[tab_idx]).
CallReleaseFor(t) ==
  /\ t \in Running
  /\ pc[t] \in Rest
  /\ \E k \in Keys :
       /\ x' = [x EXCEPT ![t] = k]
       /\ ptr' = [ptr EXCEPT ![t] = release_for_tab_idx(k, size)]
  /\ pc' = [pc EXCEPT ![t] = "rel_sync"]
  /\ UNCHANGED <<size, ll_spinlock_tab, shared, buf, nthreads, key, ret, reg, iter,
                 holder, claimed, last_write>>

----------------------------------------------------------------------------
\* The caller of the mutual-exclusion test: each thread runs MaxIter times
\*   acquire_for(k); r = counter; counter = r + 1; release_for(k)
\* with its key k fixed for the run.

\* The counter a caller protects with the lock of key k: one per slot.
CounterOf(k) == k % size

\* acquire_for(k): the index computation, then the call of ll_spinlock_acquire.
LoopAcquireFor(t) ==
  /\ t \in Running
  /\ pc[t] \in {"start", "released"}
  /\ iter[t] < MaxIter
  /\ iter' = [iter EXCEPT ![t] = @ + 1]
  /\ x' = [x EXCEPT ![t] = key[t]]
  /\ ptr' = [ptr EXCEPT ![t] = acquire_for_tab_idx(key[t], size)]
  /\ pc' = [pc EXCEPT ![t] = "acq_tas"]
  /\ UNCHANGED <<size, ll_spinlock_tab, shared, buf, nthreads, key, ret, reg,
                 holder, claimed, last_write>>

\* r = counter
LoopRead(t) ==
  /\ pc[t] = "acquired"
  /\ reg' = [reg EXCEPT ![t] = Load(t, DataAt(CounterOf(key[t])))]
  /\ pc' = [pc EXCEPT ![t] = "cs_write"]
  /\ UNCHANGED <<size, ll_spinlock_tab, shared, buf, nthreads, key, x, ptr, ret,
                 iter, holder, claimed, last_write>>

\* counter = r + 1
LoopWrite(t) ==
  /\ pc[t] = "cs_write"
  /\ LET e == CounterOf(key[t])
         r == Store(t, DataAt(e), reg[t] + 1)
     IN /\ SetMem(r.m)
        /\ buf' = [buf EXCEPT ![t] = r.b]
        /\ last_write' = [last_write EXCEPT ![e] = reg[t] + 1]
  /\ pc' = [pc EXCEPT ![t] = "cs_done"]
  /\ UNCHANGED <<size, nthreads, key, x, ptr, ret, reg, iter, claimed>>

\* release_for(x): the index computation, then the call of ll_spinlock_release.
LoopReleaseFor(t) ==
  /\ pc[t] = "cs_done"
  /\ x' = [x EXCEPT ![t] = key[t]]
  /\ ptr' = [ptr EXCEPT ![t] = release_for_tab_idx(key[t], size)]
  /\ pc' = [pc EXCEPT ![t] = "rel_sync"]
  /\ UNCHANGED <<size, ll_spinlock_tab, shared, buf, nthreads, key, ret, reg,
                 iter, holder, claimed, last_write>>

----------------------------------------------------------------------------
\* The state after construction of a table of sz slots, with n threads about
\* to run.
InitTable(sz, n) ==
  /\ size = sz
  /\ ll_spinlock_tab \in Constructed(sz)
  /\ shared = [e \in 0..(sz - 1) |-> 0]
  /\ last_write = [e \in 0..(sz - 1) |-> 0]
  /\ holder = [p \in 0..(sz * LL_CACHELINE - 1) |-> NoThread]
  /\ nthreads = n
  /\ buf = [t \in Threads |-> <<>>]
  /\ pc = [t \in Threads |-> "start"]
  /\ x = [t \in Threads |-> NoKey]
  /\ ptr = [t \in Threads |-> NoPtr]
  /\ ret = [t \in Threads |-> NoRet]
  /\ reg = [t \in Threads |-> 0]
  /\ iter = [t \in Threads |-> 0]
  /\ claimed = [t \in Threads |-> FALSE]

\* Spec: 1..LoopThreads threads run the acquire/increment/release loop on a
\* table of 2^LogSize slots, each thread with a key of its own choice.
Init ==
  /\ \E n \in 1..LoopThreads : InitTable(TableSize, n)
  /\ key \in [Threads -> Keys \cup {NoKey}]
  /\ \A t \in Threads : key[t] = NoKey <=> t \notin Running

Next ==
  \E t \in Threads :
    \/ LoopAcquireFor(t)
    \/ AcquireTestAndSet(t)
    \/ AcquireSpin(t)
    \/ LoopRead(t)
    \/ LoopWrite(t)
    \/ LoopReleaseFor(t)
    \/ ReleaseSynchronize(t)
    \/ ReleaseStore(t)
    \/ Retire(t)

Spec == Init /\ [][Next]_vars

\* SpecLock: 1..NumThreads threads call ll_spinlock_try_acquire,
\* ll_spinlock_acquire and ll_spinlock_release on one lock, in any order and
\* with no pairing discipline.
InitLock ==
  /\ \E n \in Threads : InitTable(1, n)
  /\ key = [t \in Threads |-> NoKey]

NextLock ==
  \E t \in Threads :
    \/ CallTryAcquire(t)
    \/ TryAcquireTestAndSet(t)
    \/ CallAcquire(t)
    \/ AcquireTestAndSet(t)
    \/ AcquireSpin(t)
    \/ CallRelease(t)
    \/ ReleaseSynchronize(t)
    \/ ReleaseStore(t)
    \/ Retire(t)

SpecLock == InitLock /\ [][NextLock]_vars

\* SpecTable: 1..LoopThreads threads call acquire_for and release_for with any
\* keys, in any order, on a table of any power-of-two size up to 2^LogSize.
InitSizes ==
  /\ \E e \in 0..LogSize : \E n \in 1..LoopThreads : InitTable(2 ^ e, n)
  /\ key = [t \in Threads |-> NoKey]

NextTable ==
  \E t \in Threads :
    \/ CallAcquireFor(t)
    \/ AcquireTestAndSet(t)
    \/ AcquireSpin(t)
    \/ CallReleaseFor(t)
    \/ ReleaseSynchronize(t)
    \/ ReleaseStore(t)
    \/ Retire(t)

SpecTable == InitSizes /\ [][NextTable]_vars

\* template <int size> // Must be a power of 2: the requirement is a comment.
IsPowerOfTwo(n) == \E e \in 0..30 : n = 2 ^ e

\* SpecAnySize: as SpecTable, with the table instantiated and constructed for
\* any positive size up to 2^LogSize + 1, a power of two or not; the template
\* and the constructor accept every one of them.
InitAnySize ==
  /\ \E sz \in 1..(TableSize + 1) : \E n \in 1..LoopThreads : InitTable(sz, n)
  /\ key = [t \in Threads |-> NoKey]

SpecAnySize == InitAnySize /\ [][NextTable]_vars

\* Keys of the int-sized and narrower types: the small ones of either sign
\* and the two ends of the range.
IndexKeys == (-(MaxKey + 1))..MaxKey \cup {-2147483647, 2147483647}

\* Limbs of keys of wider types.
HighLimbs == {-2147483647, -1, 1, 2147483647}
LowLimbs == 0..MaxKey \cup {2147483646, 2147483647}

\* A call of acquire_for(k) or release_for(k), k of type int or narrower and
\* of either sign.
CallForKey(t) ==
  /\ t \in Running
  /\ pc[t] \in Rest
  /\ \E k \in IndexKeys :
       /\ x' = [x EXCEPT ![t] = k]
       /\ \/ /\ ptr' = [ptr EXCEPT ![t] = acquire_for_tab_idx(k, size)]
             /\ pc' = [pc EXCEPT ![t] = "acq_tas"]
          \/ /\ ptr' = [ptr EXCEPT ![t] = release_for_tab_idx(k, size)]
             /\ pc' = [pc EXCEPT ![t] = "rel_sync"]
  /\ UNCHANGED <<size, ll_spinlock_tab, shared, buf, nthreads, key, ret, reg, iter,
                 holder, claimed, last_write>>

\* A call of acquire_for(k) or release_for(k), k of a type wider than int;
\* x records the low limb of k and key the high limb.
CallForWideKey(t) ==
  /\ t \in Running
  /\ pc[t] \in Rest
  /\ \E hi \in HighLimbs : \E lo \in LowLimbs :
       /\ x' = [x EXCEPT ![t] = lo]
       /\ key' = [key EXCEPT ![t] = hi]
       /\ ptr' = [ptr EXCEPT ![t] = wide_tab_idx(hi, lo, size)]
  /\ \E to \in {"acq_tas", "rel_sync"} : pc' = [pc EXCEPT ![t] = to]
  /\ UNCHANGED <<size, ll_spinlock_tab, shared, buf, nthreads, ret, reg, iter,
                 holder, claimed, last_write>>

\* SpecIndex: one thread calls acquire_for and release_for with keys of every
\* sign and width on a table of any positive size up to 2 * 2^LogSize + 1.
InitIndex ==
  /\ \E sz \in 1..(2 * TableSize + 1) : InitTable(sz, 1)
  /\ key = [t \in Threads |-> NoKey]

NextIndex ==
  \E t \in Threads :
    \/ CallForKey(t)
    \/ CallForWideKey(t)
    \/ AcquireTestAndSet(t)
    \/ AcquireSpin(t)
    \/ ReleaseSynchronize(t)
    \/ ReleaseStore(t)
    \/ Retire(t)

SpecIndex == InitIndex /\ [][NextIndex]_vars

----------------------------------------------------------------------------
\* Callers that pair their calls: ll_spinlock_acquire when they do not hold
\* the lock, ll_spinlock_release when ll_spinlock_acquire has returned.
PairedAcquire(t) ==
  /\ pc[t] \in {"start", "released"}
  /\ CallAcquire(t)

PairedRelease(t) ==
  /\ pc[t] = "acquired"
  /\ CallRelease(t)

\* The steps a thread takes once it is scheduled: the statements of
\* ll_spinlock_acquire and ll_spinlock_release, and the call of release by a
\* thread that holds the lock.  (Whether a thread ever calls acquire again is
\* up to its caller.)
LockStep(t) ==
  \/ AcquireTestAndSet(t)
  \/ AcquireSpin(t)
  \/ PairedRelease(t)
  \/ ReleaseSynchronize(t)
  \/ ReleaseStore(t)

\* Every thread is scheduled again and again, every holder releases, and
\* every buffered store reaches memory.
Fairness ==
  \A t \in Threads : WF_vars(LockStep(t)) /\ WF_vars(Retire(t))

NextFair ==
  \E t \in Threads :
    \/ PairedAcquire(t)
    \/ AcquireTestAndSet(t)
    \/ AcquireSpin(t)
    \/ PairedRelease(t)
    \/ ReleaseSynchronize(t)
    \/ ReleaseStore(t)
    \/ Retire(t)

\* SpecFair: 1..NumThreads threads acquire and release one lock in pairs,
\* under every fair schedule.
SpecFair == InitLock /\ [][NextFair]_vars /\ Fairness

\* The thread that the scheduler of SpecBypass works against.
Victim == CHOOSE t \in Threads : \A u \in Threads : t <= u

\* The test-and-set of the victim, run at a moment when the lock word is 1.
BypassedTestAndSet(t) ==
  /\ t = Victim
  /\ pc[t] = "acq_tas"
  /\ ll_spinlock_tab[ptr[t]] = 1
  /\ AcquireTestAndSet(t)

\* The test-and-set of any other thread.
OtherTestAndSet(t) ==
  /\ t # Victim
  /\ AcquireTestAndSet(t)

InitBypass ==
  /\ \E n \in 2..NumThreads : InitTable(1, n)
  /\ key = [t \in Threads |-> NoKey]

NextBypass ==
  \E t \in Threads :
    \/ PairedAcquire(t)
    \/ BypassedTestAndSet(t)
    \/ OtherTestAndSet(t)
    \/ AcquireSpin(t)
    \/ PairedRelease(t)
    \/ ReleaseSynchronize(t)
    \/ ReleaseStore(t)
    \/ Retire(t)

\* SpecBypass: the executions of SpecFair, with two threads or more, in which
\* the scheduler runs the victim's test-and-set only at moments when the lock
\* word is 1.  The fairness is that of SpecFair: the victim's own steps
\* (its test-and-set whenever it is pending) are weakly fair too.
SpecBypass == InitBypass /\ [][NextBypass]_vars /\ Fairness

----------------------------------------------------------------------------
\* Properties of the loop of acquire_for / increment / release_for (Spec).

\* Thread t is in its critical section: acquire_for has returned and
\* release_for has not stored its 0 yet.
InCS(t) == pc[t] \in {"acquired", "cs_write", "cs_done", "rel_sync", "rel_store"}

\* The lock word of key k in a table of power-of-two size.
LockOf(k) == (k % size) * LL_CACHELINE

\* C1: mutual exclusion.  Two threads whose keys select the same lock are
\* never in the critical section together, and the lock word of a thread in
\* its critical section is 1 in memory, taken by that thread.
C1_MutualExclusion ==
  /\ \A t, u \in Threads :
       (t # u /\ InCS(t) /\ InCS(u)) => LockOf(key[t]) # LockOf(key[u])
  /\ \A t \in Threads :
       InCS(t) => /\ ll_spinlock_tab[LockOf(key[t])] = 1
                  /\ holder[LockOf(key[t])] = t

\* One thread is in the critical section while another spins on the same lock.
C1_Witness ==
  \E t, u \in Threads :
    /\ t # u
    /\ InCS(t)
    /\ pc[u] = "acq_spin"
    /\ ptr[u] = LockOf(key[t])

AllDone == \A t \in Running : pc[t] = "released" /\ iter[t] = MaxIter

\* C2: no lost updates.  When all threads have finished, the counter of every
\* slot equals MaxIter times the number of threads whose key selects the slot;
\* with one key k for all N threads the counter is N * MaxIter.
C2_NoLostUpdates ==
  AllDone =>
    /\ \A e \in 0..(size - 1) :
         shared[e] = MaxIter * Cardinality({t \in Running : key[t] % size = e})
    /\ \A k \in Keys :
         (\A t \in Running : key[t] = k) => shared[k % size] = nthreads * MaxIter

\* Several threads have finished MaxIter iterations each on one key.
C2_Witness ==
  /\ AllDone
  /\ nthreads >= 2
  /\ \A t \in Running : key[t] = key[1]
  /\ shared[key[1] % size] = nthreads * MaxIter

\* C3: visibility across the lock.  The value a thread reads in its critical
\* section is the last value written in a critical section of the same lock,
\* and while a write of a critical section is still in the writer's buffer
\* the lock word is 1 in memory, held by the writer: the lock is not seen
\* free before the write is in memory.
C3_Visibility ==
  /\ \A t \in Threads :
       pc[t] = "cs_write" => reg[t] = last_write[key[t] % size]
  /\ \A t \in Threads : \A i \in 1..Len(buf[t]) :
       buf[t][i].loc[1] = "data" =>
         /\ ll_spinlock_tab[buf[t][i].loc[2] * LL_CACHELINE] = 1
         /\ holder[buf[t][i].loc[2] * LL_CACHELINE] = t

\* A thread in its first iteration has read the value another thread wrote.
C3_Witness ==
  \E t, u \in Threads :
    /\ t # u
    /\ key[t] % size = key[u] % size
    /\ pc[u] = "cs_write"
    /\ iter[u] = 1
    /\ reg[u] = 1

\* acquire_for(key) has returned in t and t has not stored the releasing 0.
HoldsFor(t) == InCS(t)

\* C10: aliasing serialises.  While thread t holds the slot through
\* acquire_for(key), acquire_for(key + size) of another thread does not
\* return.
C10_AliasingSerialises ==
  [][\A t, u \in Threads :
       (/\ t # u
        /\ key[t] \in Keys
        /\ key[u] \in Keys
        /\ key[u] = key[t] + size
        /\ HoldsFor(t))
       => ~(pc[u] = "acq_tas" /\ pc'[u] = "acquired")]_vars

\* t holds the slot of its key and u waits in acquire_for(key + size).
C10_Witness ==
  \E t, u \in Threads :
    /\ t # u
    /\ key[u] \in Keys
    /\ key[u] = key[t] + size
    /\ HoldsFor(t)
    /\ pc[u] = "acq_spin"

----------------------------------------------------------------------------
\* Properties of the spinlock functions called in any order (SpecLock).

\* The step in which ll_spinlock_try_acquire of thread t returns.
TryReturns(t) == pc[t] = "try_tas" /\ pc'[t] = "tried"

\* The lock at p is taken by t and t has no releasing store of its own pending.
HoldsLock(t, p) == holder[p] = t /\ Load(t, LockAt(p)) # 0

\* C4 as claimed: try_acquire returns true if and only if the caller holds the
\* lock when the call returns, a caller that already holds it included.
C4_Original ==
  [][\A t \in Threads :
       TryReturns(t) =>
         (try_acquire_result(ret'[t]) <=> holder'[ptr[t]] = t)]_vars

\* C4, amended: try_acquire returns true if and only if the caller holds the
\* lock when the call returns and did not hold it when the call was made; a
\* caller that already holds the lock gets false and goes on holding it.
C4_TryAcquireResult ==
  [][\A t \in Threads :
       TryReturns(t) =>
         IF HoldsLock(t, ptr[t])
         THEN ~try_acquire_result(ret'[t]) /\ holder'[ptr[t]] = t
         ELSE try_acquire_result(ret'[t]) <=> holder'[ptr[t]] = t]_vars

\* A thread that holds the lock has called try_acquire again and got false.
C4_Witness ==
  \E t \in Threads :
    /\ pc[t] = "tried"
    /\ ~try_acquire_result(ret[t])
    /\ claimed[t]
    /\ holder[0] = t
    /\ ll_spinlock_tab[0] = 1

\* C5: try_acquire never blocks.  Its test-and-set can be taken in every
\* state in which the call is pending; the step after the call is the return,
\* never the wait loop; on a held lock it returns false and the lock stays
\* held by the same thread.
C5_TryNeverBlocks ==
  /\ [](\A t \in Threads : pc[t] = "try_tas" => ENABLED TryAcquireTestAndSet(t))
  /\ [][\A t \in Threads :
          (pc[t] = "try_tas" /\ pc'[t] # "try_tas") =>
            /\ pc'[t] = "tried"
            /\ Load(t, LockAt(ptr[t])) # 0 =>
                 /\ ~try_acquire_result(ret'[t])
                 /\ ll_spinlock_tab'[ptr[t]] = 1
                 /\ holder[ptr[t]] # NoThread
                 /\ holder'[ptr[t]] = holder[ptr[t]]]_vars

\* try_acquire has returned false on a lock another thread holds, while a
\* third thread waits for the lock in ll_spinlock_acquire.
C5_Witness ==
  \E t, u \in Threads :
    /\ t # u
    /\ pc[t] = "tried"
    /\ ~try_acquire_result(ret[t])
    /\ holder[0] \notin {t, u, NoThread}
    /\ pc[u] = "acq_spin"

\* C6: single-threaded sequences.  With one thread, try_acquire returns true
\* exactly when the thread's most recent operation other than a failed
\* try_acquire is init or release (claimed is false), and false when it is a
\* successful acquisition not yet followed by a release (claimed is true).
C6_SingleThreadSequence ==
  [][\A t \in Threads :
       (nthreads = 1 /\ TryReturns(t)) =>
         (try_acquire_result(ret'[t]) <=> ~claimed[t])]_vars

\* The only thread has called try_acquire on the lock it holds and got false.
C6_Witness ==
  /\ nthreads = 1
  /\ pc[1] = "tried"
  /\ ~try_acquire_result(ret[1])
  /\ claimed[1]

\* C7: release has no ownership check.  Both statements of ll_spinlock_release
\* can be taken by any thread in any lock state; when it returns the caller
\* sees the lock free; and when its store reaches memory the lock is free
\* there, whoever held it.
C7_ReleaseByAnyThread ==
  /\ [](\A t \in Threads :
          /\ pc[t] = "rel_sync" => ENABLED ReleaseSynchronize(t)
          /\ pc[t] = "rel_store" => ENABLED ReleaseStore(t))
  /\ [][\A t \in Threads :
          /\ (pc[t] = "rel_store" /\ pc'[t] # "rel_store") =>
               /\ pc'[t] = "released"
               /\ LoadFrom(buf'[t], Mem', LockAt(ptr[t])) = 0
          /\ (Len(buf'[t]) < Len(buf[t]) /\ pc'[t] = pc[t]) =>
               \A p \in LockPtrs :
                 ll_spinlock_tab'[p] # ll_spinlock_tab[p] =>
                   ll_spinlock_tab'[p] = 0 /\ holder'[p] = NoThread]_vars

\* Thread a took the lock and has not released it, thread b has released, and
\* now thread c has taken the lock.
C7_Witness ==
  \E a, b, c \in Threads :
    /\ a # b /\ b # c /\ a # c
    /\ pc[a] = "acquired" /\ claimed[a]
    /\ pc[b] = "released"
    /\ pc[c] = "acquired"
    /\ holder[0] = c
    /\ ll_spinlock_tab[0] = 1

\* The abstract lock the spinlock implements (the contract of
\* pthread_spin_lock / pthread_spin_trylock / pthread_spin_unlock): free or
\* held, read off the lock word in memory.
LockAbs == IF ll_spinlock_tab[0] = 0 THEN "free" ELSE "held"

\* The abstract lock as thread t meets it: a release t has issued and that
\* is still pending takes effect before t's next operation on the lock.
LockAbsFor(t) == IF Load(t, LockAt(0)) = 0 THEN "free" ELSE "held"

\* The step in which ll_spinlock_acquire of thread t returns.
AcquireReturns(t) == pc[t] \in {"acq_tas", "acq_spin"} /\ pc'[t] = "acquired"

\* The step in which a release issued by thread u takes effect.
ReleaseTakesEffect(u) ==
  Len(OnLoc(buf'[u], LockAt(0))) < Len(OnLoc(buf[u], LockAt(0)))

\* C15: backend equivalence.  The spinlock refines the abstract lock: every
\* step is a step of the abstract lock or leaves it unchanged.
\* ll_spinlock_acquire returns only in a step that takes the abstract lock
\* from free to held; ll_spinlock_try_acquire returns true in such a step
\* and false when the abstract lock is held, which it leaves held; a failed
\* test-and-set of acquire leaves the abstract lock held; the abstract lock
\* becomes free only when a release that some thread issued takes effect,
\* and becomes held only when acquire returns or try_acquire returns true.
C15_RefinesAbstractLock ==
  [][/\ \A t \in Threads :
          /\ AcquireReturns(t) =>
               LockAbsFor(t) = "free" /\ LockAbs' = "held"
          /\ TryReturns(t) =>
               /\ try_acquire_result(ret'[t]) <=> LockAbsFor(t) = "free"
               /\ LockAbs' = "held"
          /\ (pc[t] = "acq_tas" /\ pc'[t] = "acq_spin") =>
               LockAbsFor(t) = "held" /\ LockAbs' = "held"
          /\ (LockAbsFor(t) = "free" /\ LockAbs = "held") =>
               Len(OnLoc(buf[t], LockAt(0))) > 0
     /\ (LockAbs = "held" /\ LockAbs' = "free") =>
          \E u \in Threads : ReleaseTakesEffect(u)
     /\ (LockAbs = "free" /\ LockAbs' = "held") =>
          \E t \in Threads :
            \/ AcquireReturns(t)
            \/ TryReturns(t) /\ try_acquire_result(ret'[t])
     /\ \A t, u \in Threads :
          (t # u /\ (AcquireReturns(t) \/ TryReturns(t))) =>
            ~(AcquireReturns(u) \/ TryReturns(u))]_vars

\* try_acquire has returned true in one thread after the release of another
\* took effect, while a third thread waits in acquire.
C15_Witness ==
  \E t, u, w \in Threads :
    /\ t # u /\ u # w /\ t # w
    /\ pc[t] = "tried"
    /\ try_acquire_result(ret[t])
    /\ holder[0] = t
    /\ pc[u] = "released"
    /\ buf[u] = <<>>
    /\ pc[w] = "acq_spin"

\* The test-and-set of thread t on the word at p found 0: acquire returns,
\* or try_acquire returns true.
TakesLock(t, p) ==
  /\ ptr[t] = p
  /\ \/ pc[t] = "acq_tas" /\ pc'[t] = "acquired"
     \/ TryReturns(t) /\ try_acquire_result(ret'[t])

\* A releasing store of thread u to the word at p leaves u's buffer.
ReleaseLands(u, p) ==
  \E i \in 1..Len(buf[u]) :
    /\ buf[u][i] = [loc |-> LockAt(p), val |-> 0]
    /\ Len(OnLoc(buf'[u], LockAt(p))) < Len(OnLoc(buf[u], LockAt(p)))

\* C16: per-slot state machine.  After init the flag is 0 or 1 in every
\* state, in memory and as every thread reads it.  It goes from 0 to 1 only
\* in a step in which a test-and-set finds 0 (acquire returns, or try_acquire
\* returns true), from 1 to 0 only in a step in which the store of a release
\* reaches memory, and a test-and-set that finds 0 leaves it 1.
C16_SlotStateMachine ==
  /\ [](\A p \in DOMAIN ll_spinlock_tab :
          /\ ll_spinlock_tab[p] \in {0, 1}
          /\ \A t \in Threads : Load(t, LockAt(p)) \in {0, 1})
  /\ [][\A p \in DOMAIN ll_spinlock_tab :
          /\ (ll_spinlock_tab[p] = 0 /\ ll_spinlock_tab'[p] = 1) =>
               \E t \in Threads : TakesLock(t, p)
          /\ (ll_spinlock_tab[p] = 1 /\ ll_spinlock_tab'[p] = 0) =>
               \E u \in Threads : ReleaseLands(u, p)
          /\ \A t \in Threads :
               TakesLock(t, p) =>
                 /\ ll_spinlock_tab'[p] = 1
                 /\ ll_spinlock_tab[p] = 0 \/ ReleaseLands(t, p)]_vars

\* The flag has gone 0, 1, 0, 1: one thread has released, another has then
\* taken the lock with acquire, and try_acquire has failed in a third.
C16_Witness ==
  \E t, u, w \in Threads :
    /\ t # u /\ u # w /\ t # w
    /\ pc[t] = "acquired"
    /\ holder[0] = t
    /\ ll_spinlock_tab[0] = 1
    /\ pc[u] = "released"
    /\ claimed[u] = FALSE
    /\ buf[u] = <<>>
    /\ pc[w] = "tried"
    /\ ~try_acquire_result(ret[w])

\* C18: test-and-test-and-set waiting.  A step of a thread in the wait loop
\* of ll_spinlock_acquire is a plain read: it changes neither memory nor any
\* buffer, and leaves the loop, for the test-and-set and nothing else, exactly
\* when the flag it reads is not 1.  A test-and-set that finds the lock held
\* leaves the flag 1 and the holder as it was, and takes the thread (back) to
\* the wait loop; one that finds it free returns.
C18_TestAndTestAndSet ==
  [][\A t \in Threads :
       /\ pc[t] = "acq_spin" =>
            /\ pc'[t] \in {"acq_spin", "acq_tas"}
            /\ (pc'[t] = "acq_tas") =>
                 /\ Load(t, LockAt(ptr[t])) = 0
                 /\ <<ll_spinlock_tab, shared, holder, buf>>' =
                      <<ll_spinlock_tab, shared, holder, buf>>
            /\ Load(t, LockAt(ptr[t])) = 1 => pc'[t] = "acq_spin"
            /\ OnLoc(buf[t], LockAt(ptr[t])) = <<>>
       /\ (pc[t] = "acq_tas" /\ pc'[t] # "acq_tas") =>
            IF Load(t, LockAt(ptr[t])) = 0
            THEN pc'[t] = "acquired"
            ELSE /\ pc'[t] = "acq_spin"
                 /\ ll_spinlock_tab[ptr[t]] = 1
                 /\ <<ll_spinlock_tab, shared, holder, buf>>' =
                      <<ll_spinlock_tab, shared, holder, buf>>]_vars

\* A thread that waited has seen the lock free and is about to retry, but
\* another thread has taken the lock since a third released it.
C18_Witness ==
  \E t, u, w \in Threads :
    /\ t # u /\ u # w /\ t # w
    /\ pc[t] = "acq_tas"
    /\ buf[t] = <<>>
    /\ pc[u] = "acquired"
    /\ holder[0] = u
    /\ ll_spinlock_tab[0] = 1
    /\ pc[w] = "released"
    /\ buf[w] = <<>>

----------------------------------------------------------------------------
\* Properties of acquire_for / release_for called with any keys (SpecTable).

\* Thread t is inside acquire_for or release_for, past the index computation.
InTableCall(t) == pc[t] \in {"acq_tas", "acq_spin", "rel_sync", "rel_store"}

\* C8: index determinism.  In every state, whatever the lock words hold and
\* whichever thread calls, the lock a call of acquire_for or release_for
\* works on is word (x mod size) * LL_CACHELINE; calls with the same key work
\* on the same word, and calls whose keys differ by less than size on
\* different words.
C8_IndexDeterminism ==
  /\ \A t \in Threads :
       InTableCall(t) => ptr[t] = (x[t] % size) * LL_CACHELINE
  /\ \A t, u \in Threads :
       (InTableCall(t) /\ InTableCall(u)) =>
         /\ x[t] = x[u] => ptr[t] = ptr[u]
         /\ (x[t] # x[u] /\ x[t] - x[u] < size /\ x[u] - x[t] < size)
              => ptr[t] # ptr[u]

\* Two threads are in calls with consecutive keys while a lock is held:
\* one spins in acquire_for, the other is in release_for.
C8_Witness ==
  \E t, u \in Threads :
    /\ size > 1
    /\ pc[t] = "acq_spin"
    /\ pc[u] = "rel_store"
    /\ x[u] = x[t] + 1
    /\ \E p \in LockPtrs : ll_spinlock_tab[p] = 1

\* The lock words as thread t reads them.
ViewOf(b, m) == [p \in DOMAIN m.tab |-> LoadFrom(b, m, LockAt(p))]

AcquireForReturns(t) == pc[t] = "acq_tas" /\ pc'[t] = "acquired"
ReleaseForReturns(t) == pc[t] = "rel_store" /\ pc'[t] = "released"

\* C9: release_for computes the index acquire_for computes.  acquire_for(k)
\* returns having changed one word, (k mod size) * LL_CACHELINE, from 0 to 1;
\* release_for(k) returns having set that same word to 0 and no other, so the
\* pair leaves every word as it was; and a slot taken with key k1 is free
\* after release_for(k2) if and only if k1 mod size = k2 mod size.
C9_ReleaseMatchesAcquire ==
  [][\A t \in Threads :
       /\ AcquireForReturns(t) =>
            /\ ViewOf(buf[t], Mem)[(x[t] % size) * LL_CACHELINE] = 0
            /\ ViewOf(buf'[t], Mem') =
                 [ViewOf(buf[t], Mem) EXCEPT ![(x[t] % size) * LL_CACHELINE] = 1]
       /\ ReleaseForReturns(t) =>
            /\ ViewOf(buf'[t], Mem') =
                 [ViewOf(buf[t], Mem) EXCEPT ![(x[t] % size) * LL_CACHELINE] = 0]
            /\ \A k1 \in Keys :
                 ViewOf(buf[t], Mem)[(k1 % size) * LL_CACHELINE] = 1 =>
                   (ViewOf(buf'[t], Mem')[(k1 % size) * LL_CACHELINE] = 0
                      <=> k1 % size = x[t] % size)]_vars

\* One thread holds a slot and another thread has returned from release_for
\* on a key of the other slot: the held slot is still held.
C9_Witness ==
  \E t, u \in Threads : \E p, q \in LockPtrs :
    /\ t # u
    /\ p # q
    /\ pc[t] = "acquired"
    /\ holder[p] = t
    /\ ll_spinlock_tab[p] = 1
    /\ pc[u] = "released"
    /\ buf[u] # <<>>
    /\ buf[u][1].loc = LockAt(q)

\* The table is as the constructor left it: no thread has called anything.
Fresh == \A t \in Threads : pc[t] = "start"

\* No lock word is taken, and every thread but t has still called nothing.
FreshFor(t) ==
  /\ \A u \in Threads \ {t} : pc[u] = "start"
  /\ \A p \in DOMAIN holder : holder[p] = NoThread

\* C12: the constructor leaves every slot free.  After construction every
\* word of the table is 0, whatever the array held before, and when a thread
\* calls acquire_for(k) on a table on which no other thread has called
\* anything and no slot is taken, its first test-and-set takes the lock: the
\* call returns without entering the wait loop.
C12_FreshTableAcquires ==
  /\ [](Fresh => \A p \in DOMAIN ll_spinlock_tab : ll_spinlock_tab[p] = 0)
  /\ [][\A t \in Threads :
          (pc[t] = "acq_tas" /\ pc'[t] # "acq_tas" /\ FreshFor(t)) =>
            /\ pc'[t] = "acquired"
            /\ ll_spinlock_tab[ptr[t]] = 0
            /\ ll_spinlock_tab'[ptr[t]] = 1]_vars

\* acquire_for has returned in the one thread that has called anything, on
\* the second slot of a table of two, and nothing else has happened.
C12_Witness ==
  \E t \in Threads :
    /\ size = 2
    /\ nthreads = 2
    /\ pc[t] = "acquired"
    /\ \A u \in Threads \ {t} : pc[u] = "start"
    /\ buf[t] = <<>>
    /\ holder[LL_CACHELINE] = t
    /\ holder[0] = NoThread

\* Thread t is inside ll_spinlock_acquire on a lock that t itself has taken
\* and not released: the word is 1 for t and the last successful
\* test-and-set on it was t's.
SelfWait(t) ==
  /\ pc[t] \in {"acq_tas", "acq_spin"}
  /\ holder[ptr[t]] = t
  /\ Load(t, LockAt(ptr[t])) # 0

\* C13: no reentrancy.  A thread that calls acquire_for on a slot it already
\* holds (with the same or an aliasing key) does not return from the call and
\* the slot stays taken by it, in every step in which no releasing store
\* reaches the lock word (the hold recorded for the word is still the
\* thread's; the thread has no such store pending itself, so the store would
\* be another thread's); when it is the only thread, it stays in the call
\* for ever.
C13_NoReentrancy ==
  [][\A t \in Threads :
       SelfWait(t) =>
         /\ ll_spinlock_tab[ptr[t]] = 1
         /\ pc'[t] # "acquired"
         /\ holder'[ptr[t]] = t =>
              /\ SelfWait(t)'
              /\ ll_spinlock_tab'[ptr[t]] = 1
         /\ nthreads = 1 => SelfWait(t)']_vars

\* A thread spins in acquire_for of a key beyond the table size on the slot
\* it holds itself, while the other thread has called nothing.
C13_Witness ==
  \E t \in Threads :
    /\ nthreads = 2
    /\ pc[t] = "acq_spin"
    /\ holder[ptr[t]] = t
    /\ x[t] >= size
    /\ buf[t] = <<>>
    /\ \A u \in Threads \ {t} : pc[u] = "start"

\* The words between the slots: ll_spinlock_tab[p], p not a multiple of
\* LL_CACHELINE.
PaddingWords == {p \in DOMAIN ll_spinlock_tab : p % LL_CACHELINE # 0}

\* C17: slots are independent.  A step of acquire_for(k) or release_for(k)
\* issues stores to the word (k mod size) * LL_CACHELINE only, and memory
\* changes only at that word or where a store issued earlier by a release_for
\* lands; the padding words are 0 in every state and no store to them is
\* ever pending; and the first test-and-set of acquire_for(k2) takes the lock
\* whenever the slot of k2 is not taken, whichever other slots are held.
C17_SlotsIndependent ==
  /\ [](/\ \A p \in PaddingWords : ll_spinlock_tab[p] = 0
        /\ \A t \in Threads : \A i \in 1..Len(buf[t]) :
             /\ buf[t][i].loc[1] = "lock"
             /\ buf[t][i].loc[2] \in LockPtrs)
  /\ [][/\ \A t \in Threads :
             (InTableCall(t) /\ pc'[t] # pc[t]) =>
               /\ \A i \in 1..Len(buf'[t]) :
                    buf'[t][i].loc # LockAt(LockOf(x[t])) =>
                      \E j \in 1..Len(buf[t]) : buf[t][j] = buf'[t][i]
               /\ \A u \in Threads \ {t} : buf'[u] = buf[u]
        /\ \A q \in DOMAIN ll_spinlock_tab :
             ll_spinlock_tab'[q] # ll_spinlock_tab[q] =>
               \/ \E t \in Threads :
                    /\ InTableCall(t)
                    /\ pc'[t] # pc[t]
                    /\ q = LockOf(x[t])
               \/ \E u \in Threads : ReleaseLands(u, q)
        /\ \A t \in Threads :
             (/\ pc[t] = "acq_tas"
              /\ pc'[t] # "acq_tas"
              /\ holder[LockOf(x[t])] = NoThread)
             => pc'[t] = "acquired"]_vars

\* One thread holds the first slot and acquire_for on a key of the second
\* slot has returned in the other thread, which has never waited.
C17_Witness ==
  \E t, u \in Threads :
    /\ t # u
    /\ size = 2
    /\ pc[t] = "acquired"
    /\ holder[0] = t
    /\ pc[u] = "acquired"
    /\ holder[LL_CACHELINE] = u
    /\ ll_spinlock_tab[0] = 1
    /\ ll_spinlock_tab[LL_CACHELINE] = 1

----------------------------------------------------------------------------
\* Properties of tables of any size (SpecAnySize).

\* C11: power-of-two enforcement.  A table whose size is not a power of two
\* is never usable: no acquire_for returns on it and no lock word of it is
\* ever taken.
C11_PowerOfTwoEnforced ==
  ~IsPowerOfTwo(size) =>
    /\ \A t \in Threads : pc[t] # "acquired"
    /\ \A p \in DOMAIN ll_spinlock_tab : ll_spinlock_tab[p] = 0

----------------------------------------------------------------------------
\* Properties of the lock under fair schedules (SpecBypass, SpecFair).

\* Thread t is inside ll_spinlock_acquire.
InAcquire(t) == pc[t] \in {"acq_tas", "acq_spin"}

\* The step in which a thread other than t calls ll_spinlock_acquire.
EntersBeside(t) ==
  \E u \in Threads \ {t} : pc[u] \in {"start", "released"} /\ pc'[u] = "acq_tas"

\* The step in which ll_spinlock_acquire returns in a thread other than t.
ObtainsBeside(t) ==
  \E u \in Threads \ {t} : pc[u] = "acq_tas" /\ pc'[u] = "acquired"

\* The step in which ll_spinlock_release returns in a thread other than t.
ReleasesBeside(t) ==
  \E u \in Threads \ {t} : pc[u] = "rel_store" /\ pc'[u] = "released"

\* C14: not FIFO, not starvation-free.  There are fair executions (every
\* thread's steps weakly fair, every holder releasing) in which a thread is
\* bypassed for ever: under the scheduler of SpecBypass the victim, once in
\* ll_spinlock_acquire, never leaves it, while again and again other threads
\* call ll_spinlock_acquire after it and the call returns in them, and again
\* and again the lock is released.
C14_BypassedForever ==
  /\ [](pc[Victim] # "acquired")
  /\ [][InAcquire(Victim) => InAcquire(Victim)']_vars
  /\ <>InAcquire(Victim) => []<><<EntersBeside(Victim)>>_vars
  /\ <>InAcquire(Victim) => []<><<ObtainsBeside(Victim)>>_vars
  /\ <>InAcquire(Victim) => []<><<ReleasesBeside(Victim)>>_vars

\* The victim spins, the lock has been released and is free in memory, and
\* another thread is about to take it.
C14_Witness ==
  \E u, w \in Threads \ {Victim} :
    /\ u # w
    /\ pc[Victim] = "acq_spin"
    /\ ll_spinlock_tab[0] = 0
    /\ pc[u] = "acq_tas"
    /\ pc[w] = "released"
    /\ buf[w] = <<>>

\* Some thread is inside ll_spinlock_acquire.
SomeWaiter == \E t \in Threads : InAcquire(t)

\* The step in which ll_spinlock_acquire returns in some thread.
Obtains == \E u \in Threads : AcquireReturns(u)

\* C19: lock-level progress.  Under weak fairness of every thread's steps,
\* with every holder releasing: if again and again some thread is inside
\* ll_spinlock_acquire, then again and again ll_spinlock_acquire returns in
\* some thread (a thread leaves ll_spinlock_acquire only by obtaining the
\* lock, so this is: whenever a thread is inside, some thread eventually
\* obtains the lock); and a lock that is free in memory while a thread is
\* inside ll_spinlock_acquire is eventually taken.
C19_LockProgress ==
  /\ []<>SomeWaiter => []<><<Obtains>>_vars
  /\ (SomeWaiter /\ ll_spinlock_tab[0] = 0) ~> (ll_spinlock_tab[0] = 1)

\* The lock has been released and is free in memory, nobody holds it, and
\* two threads are in the wait loop.
C19_Witness ==
  \E t, u, w \in Threads :
    /\ t # u /\ u # w /\ t # w
    /\ pc[t] = "acq_spin"
    /\ pc[u] = "acq_spin"
    /\ pc[w] = "released"
    /\ buf[w] = <<>>
    /\ ll_spinlock_tab[0] = 0
    /\ holder[0] = NoThread

----------------------------------------------------------------------------
\* Properties of the index computation for keys of any sign and width
\* (SpecIndex).

\* C20: index bounds.  Whatever the key (negative, or wider than 32 bits)
\* and whatever the positive size of the table, the position that acquire_for
\* and release_for compute is a multiple of LL_CACHELINE between 0 and
\* (size - 1) * LL_CACHELINE, and so an element of ll_spinlock_tab, which has
\* size * LL_CACHELINE elements.
C20_IndexBounds ==
  /\ DOMAIN ll_spinlock_tab = 0..(size * LL_CACHELINE - 1)
  /\ \A t \in Threads :
       InTableCall(t) =>
         /\ ptr[t] % LL_CACHELINE = 0
         /\ 0 <= ptr[t]
         /\ ptr[t] <= (size - 1) * LL_CACHELINE
         /\ ptr[t] \in DOMAIN ll_spinlock_tab

\* acquire_for is waiting on the last slot of a table of three for a
\* negative key, and has been called with a key of a wider type before.
C20_Witness ==
  \E t \in Threads :
    /\ size = 3
    /\ pc[t] = "acq_spin"
    /\ x[t] < 0
    /\ key[t] \in HighLimbs
    /\ ptr[t] = 2 * LL_CACHELINE

====
